---- MODULE Spec2Model ----
(***************************************************************************)
(* Transcript metrics of cstatus: claude.parseMetrics and the block-window *)
(* calculator of src/claude/claude.go; the install command of src/main.go; *)
(* the render context and the widgets of the render and widgets packages;  *)
(* the StatuslineBuilder of src/util/util.go.                              *)
(*                                                                         *)
(* Time.  A time.Time is a record [t, off, loc]: t is the instant, counted  *)
(* in ticks from an hour-aligned UTC epoch, loc is its location ("UTC",    *)
(* "Local" or "Fixed", a fixed zone) and off is the UTC offset of that     *)
(* location at the instant, in ticks.  A millisecond is TicksPerMs ticks,  *)
(* so that Duration.Milliseconds() truncates as it does in Go.             *)
(***************************************************************************)
EXTENDS Integers, Sequences, FiniteSets, TLC

VARIABLES
    pathKind,                  \* what transcriptPath names: "empty", "missing", "denied", "file"
    file,                      \* the lines of the transcript file
    now,                       \* what time.Now() returns during the call
    pc,                        \* position of the call
    pos,                       \* index of the next line the scanner reads
    opened,                    \* number of os.Open calls made
    inputTokens,
    outputTokens,
    cachedTokens,
    mostRecentMainChainEntry,  \* Nil or Some(entry)
    mostRecentTimestamp,
    timestamps,                \* extractTimestamps' slice / calculateBlockMetrics' argument
    continuousWorkStart,
    flooredWorkStart,
    tokenMetrics,              \* Nil or Some(ClaudeTokenMetrics)
    blockMetrics,              \* Nil or Some(ClaudeBlockMetrics)
    err,                       \* Nil or Some(error) returned by the call
    settingsFile,              \* ~/.claude/settings.json: Nil (no file) or Some(document)
    settingsBefore,            \* settings.json as it was when the running install started
    settings,                  \* handleInstall's map: Nil before it is read
    executable,                \* what os.Executable() returns
    onPath,                    \* whether exec.LookPath("cstatus") finds a binary
    installResult,             \* how the last handleInstall ended
    installs,                  \* number of handleInstall calls started
    previousResult,            \* installResult of the call before this one
    claudeJSON,                \* NewRenderContext's argument
    ctx,                       \* the RenderContext: Nil or Some(context)
    segment,                   \* what a widget's Render returned: Nil or Some(segment)
    appended,                  \* lines another process appended since the call started
    calls,                     \* number of parseMetrics calls that have returned
    previous,                  \* Nil or Some(the call that returned last)
    segments,                  \* StatuslineBuilder.segments
    widgetResults,             \* what the render functions given to Append returned
    rendered                   \* Nil or Some(the string Render returned)

installVars == <<settingsFile, settingsBefore, settings, executable, onPath,
                 installResult, installs, previousResult>>

renderVars == <<claudeJSON, ctx, segment>>

callVars == <<appended, calls, previous>>

builderVars == <<segments, widgetResults, rendered>>

\* the state of parseMetrics, but for the position and the error of the call
metricsVars == <<pathKind, file, now, pos, opened, inputTokens, outputTokens,
                 cachedTokens, mostRecentMainChainEntry, mostRecentTimestamp,
                 timestamps, continuousWorkStart, flooredWorkStart,
                 tokenMetrics, blockMetrics>>

vars == <<metricsVars, pc, err, installVars, renderVars, callVars, builderVars>>

\* A nil pointer is the empty sequence, a non-nil pointer a one-element sequence.
Nil == <<>>

Some(x) == <<x>>

----------------------------------------------------------------------------
(* Bounds *)

\* Ticks per millisecond (Go: 1,000,000 ns per ms).
TicksPerMs == 2

\* Longest timestamp sequence given to the block calculator.
MaxLen == 3

\* Longest transcript, in lines.
MaxLines == 3

\* Width in bits of the token counters (Go: int64, 64 bits).
Int64Bits == 20

\* Width in bits of a time.Duration (Go: int64 nanoseconds, 64 bits).
DurationBits == 30

----------------------------------------------------------------------------
(* time.Time and time.Duration *)

sessionDurationMs == 18000000

HourMs == 3600000

HourTicks == HourMs * TicksPerMs

\* The zero time.Time (January 1, year 1, 00:00:00 UTC): a full hour that
\* lies further before every other instant than the longest Duration.
ZeroTicks == -(150 * HourTicks)

ZeroTime == [t |-> ZeroTicks, off |-> 0, loc |-> "UTC"]

IsZero(x) == x.t = ZeroTicks

\* a.Sub(b), a Duration in ticks: the difference, or the largest (smallest)
\* Duration when the difference is above (below) it
Sub(a, b) ==
    LET maxDuration == 2 ^ (DurationBits - 1) - 1
        minDuration == -(2 ^ (DurationBits - 1))
    IN  IF a.t - b.t > maxDuration THEN maxDuration
        ELSE IF a.t - b.t < minDuration THEN minDuration
        ELSE a.t - b.t

After(a, b) == a.t > b.t

Before(a, b) == a.t < b.t

\* Duration.Milliseconds(): integer division of the duration, truncated toward zero
Milliseconds(d) == IF d >= 0 THEN d \div TicksPerMs ELSE -((-d) \div TicksPerMs)

\* Time.UnixMilli()
UnixMilli(x) == x.t \div TicksPerMs

\* The location time.Local of the process: a zone whose clocks are set back
\* by one hour at the instant LocalTransition, from the offset LocalDaylight
\* (-01:00) to the offset LocalStandard (-02:00), as those of America/Nuuk
\* are in autumn.  The wall-clock hour before the transition is repeated
\* after it.
LocalDaylight == -HourTicks

LocalStandard == -(2 * HourTicks)

LocalTransition == 10 * HourTicks

\* Location.lookup of time.Local: the offset in use at the instant sec
lookup(sec) == IF sec < LocalTransition THEN LocalDaylight ELSE LocalStandard

\* a time.Time of the instant t in the location time.Local
inLocal(t) == [t |-> t, off |-> lookup(t), loc |-> "Local"]

\* time.Now() at the instant t
timeNow(t) == inLocal(t)

\* time.UnixMilli(ms): the instant, in the location time.Local
timeUnixMilli(ms) == inLocal(ms * TicksPerMs)

\* time.Date(..., loc) for the wall-clock reading wall, in the location of a
\* time.Time whose location is loc and whose offset is off.  In time.Local
\* the reading is first looked up as if it were UTC; when the instant that
\* offset gives is outside the period the offset is in use, the offset in use
\* at that instant is taken.  A reading of the repeated hour is so given the
\* earlier of its two instants.
timeDate(wall, loc, off) ==
    IF loc = "Local"
    THEN LET guess == lookup(wall)
             utc == wall - guess
             offset == IF lookup(utc) # guess THEN lookup(utc) ELSE guess
         IN  inLocal(wall - offset)
    ELSE [t |-> wall - off, off |-> off, loc |-> loc]

\* The timestamp string of an entry is absent/empty, not RFC3339, or RFC3339:
\* the instant t written with the numeric offset off, or with the suffix Z
\* when off is 0.
TimestampAbsent == [form |-> "absent", t |-> 0, off |-> 0]

TimestampInvalid == [form |-> "invalid", t |-> 0, off |-> 0]

Rfc3339(t, off) == [form |-> "rfc3339", t |-> t, off |-> off]

\* time.Parse(time.RFC3339, s): the suffix Z gives UTC; a numeric offset that
\* is the offset of time.Local at that instant gives time.Local; any other
\* numeric offset gives a fixed zone
timeParse(s) ==
    [ok |-> s.form = "rfc3339",
     time |-> [t |-> s.t, off |-> s.off,
               loc |-> IF s.off = 0 THEN "UTC"
                       ELSE IF s.off = lookup(s.t) THEN "Local"
                       ELSE "Fixed"]]

\* no install command is run
NoInstall ==
    /\ settingsFile = Nil
    /\ settingsBefore = Nil
    /\ settings = Nil
    /\ executable = <<>>
    /\ onPath = FALSE
    /\ installResult = "none"
    /\ installs = 0
    /\ previousResult = "none"

\* no render context is built
NoRender ==
    /\ claudeJSON = Nil
    /\ ctx = Nil
    /\ segment = Nil

\* a single call of parseMetrics on a file nobody writes
NoCalls ==
    /\ appended = 0
    /\ calls = 0
    /\ previous = Nil

\* no statusline is built
NoBuilder ==
    /\ segments = <<>>
    /\ widgetResults = <<>>
    /\ rendered = Nil

----------------------------------------------------------------------------
(* int64 *)

MaxInt64 == 2 ^ (Int64Bits - 1) - 1

\* the value an int64 holds after an addition whose exact result is x
Int64(x) == ((x + 2 ^ (Int64Bits - 1)) % (2 ^ Int64Bits)) - 2 ^ (Int64Bits - 1)

----------------------------------------------------------------------------
(* Block-window calculator *)

RECURSIVE walkBackGt(_, _, _, _)
\* walkBack with the session boundary tested by > instead of >=
walkBackGt(ts, i, cws, dur) ==
    IF i < 1 THEN cws
    ELSE IF Milliseconds(Sub(ts[i + 1], ts[i])) > dur THEN cws
    ELSE walkBackGt(ts, i - 1, ts[i], dur)

RECURSIVE walkBack(_, _, _, _)
\* the loop of findContinuousWorkStart, at index i (1-based: Go's i+1)
walkBack(ts, i, cws, dur) ==
    IF i < 1 THEN cws
    ELSE IF Milliseconds(Sub(ts[i + 1], ts[i])) >= dur THEN cws
    ELSE walkBack(ts, i - 1, ts[i], dur)

findContinuousWorkStart(ts, dur) ==
    IF Len(ts) = 0 THEN ZeroTime
    ELSE walkBack(ts, Len(ts) - 1, ts[Len(ts)], dur)

\* time.Date(t.Year(), t.Month(), t.Day(), t.Hour(), 0, 0, 0, t.Location()):
\* the wall clock of t in its location, with the part of the hour taken off
floorToHour(x) ==
    LET wall == x.t + x.off
    IN  timeDate(wall - (wall % HourTicks), x.loc, x.off)

\* calculateBlockStart advancing as soon as one whole block has elapsed (>=)
calculateBlockStartGe(n, floored, dur) ==
    LET totalWorkTime == Milliseconds(Sub(n, floored))
    IN  IF totalWorkTime >= dur
        THEN timeUnixMilli(UnixMilli(floored) + ((totalWorkTime \div dur) * dur))
        ELSE floored

calculateBlockStart(n, floored, dur) ==
    LET totalWorkTime == Milliseconds(Sub(n, floored))
    IN  IF totalWorkTime > dur
        THEN LET completedBlocks == totalWorkTime \div dur
                 blockStartMs == UnixMilli(floored) + (completedBlocks * dur)
             IN  timeUnixMilli(blockStartMs)
        ELSE floored

\* the check of claude.go:276: no recent activity
NoRecentActivity(n, mostRecent) ==
    Milliseconds(Sub(n, mostRecent)) > sessionDurationMs

\* the three locals and the result of calculateBlockMetrics
calculateBlockMetrics(ts, n) ==
    IF Len(ts) = 0 THEN [cws |-> ZeroTime, floored |-> ZeroTime, result |-> Nil]
    ELSE LET mostRecent == ts[Len(ts)]
             cws == findContinuousWorkStart(ts, sessionDurationMs)
             floored == floorToHour(cws)
             blockStart == calculateBlockStart(n, floored, sessionDurationMs)
         IN  IF NoRecentActivity(n, mostRecent)
             THEN [cws |-> ZeroTime, floored |-> ZeroTime, result |-> Nil]
             ELSE [cws |-> cws, floored |-> floored,
                   result |-> Some([StartTime |-> blockStart,
                                    LastActivity |-> mostRecent])]

----------------------------------------------------------------------------
(* The block calculator applied to every ascending timestamp sequence *)

N0 == 12 * HourTicks

SessionTicks == sessionDurationMs * TicksPerMs

BlockInstants ==
    { N0 - 11 * HourTicks, N0 - 7 * HourTicks, N0 - 6 * HourTicks,
      N0 - 5 * HourTicks - TicksPerMs, N0 - 5 * HourTicks, N0 - 4 * HourTicks,
      N0 - 2 * HourTicks + (HourTicks \div 3), N0 - HourTicks, N0 - 1, N0,
      N0 + HourTicks, ZeroTicks }

\* the zones the timestamps are written with: Z, +00:30 and -02:00
Offsets == {0, HourTicks \div 2, LocalStandard}

\* what time.Parse makes of the timestamps
BlockTimes == { timeParse(Rfc3339(t, off)).time : t \in BlockInstants, off \in Offsets }

BlockNows == {timeNow(N0), timeNow(N0 + 1)}

Ascending(ts) == \A i \in 1..(Len(ts) - 1) : ~Before(ts[i + 1], ts[i])

AscendingSeqs ==
    UNION { {ts \in [1..n -> BlockTimes] : Ascending(ts)} : n \in 0..MaxLen }

InitBlock ==
    /\ pathKind = "empty"
    /\ file = <<>>
    /\ now \in BlockNows
    /\ pc = "block"
    /\ pos = 0
    /\ opened = 0
    /\ inputTokens = 0
    /\ outputTokens = 0
    /\ cachedTokens = 0
    /\ mostRecentMainChainEntry = Nil
    /\ mostRecentTimestamp = ZeroTime
    /\ timestamps \in AscendingSeqs
    /\ continuousWorkStart = ZeroTime
    /\ flooredWorkStart = ZeroTime
    /\ tokenMetrics = Nil
    /\ blockMetrics = Nil
    /\ err = Nil
    /\ NoInstall
    /\ NoRender
    /\ NoCalls
    /\ NoBuilder

\* findContinuousWorkStart(timestamps, sessionDurationMs)
CallFindContinuousWorkStart ==
    /\ pc = "block"
    /\ continuousWorkStart' = findContinuousWorkStart(timestamps, sessionDurationMs)
    /\ pc' = "found"
    /\ UNCHANGED <<installVars, renderVars, callVars, builderVars>>
    /\ UNCHANGED <<pathKind, file, now, pos, opened, inputTokens, outputTokens,
                   cachedTokens, mostRecentMainChainEntry, mostRecentTimestamp,
                   timestamps, flooredWorkStart, tokenMetrics, blockMetrics, err>>

\* calculateBlockMetrics(timestamps), time.Now() returning now
CallCalculateBlockMetrics ==
    /\ pc = "block"
    /\ LET r == calculateBlockMetrics(timestamps, now)
       IN  /\ continuousWorkStart' = r.cws
           /\ flooredWorkStart' = r.floored
           /\ blockMetrics' = r.result
    /\ pc' = "calculated"
    /\ UNCHANGED <<installVars, renderVars, callVars, builderVars>>
    /\ UNCHANGED <<pathKind, file, now, pos, opened, inputTokens, outputTokens,
                   cachedTokens, mostRecentMainChainEntry, mostRecentTimestamp,
                   timestamps, tokenMetrics, err>>

NextBlock == CallFindContinuousWorkStart \/ CallCalculateBlockMetrics

SpecBlock == InitBlock /\ [][NextBlock]_vars

----------------------------------------------------------------------------
(* Transcript lines and their decoding *)

\* A line of the file, by what the line reader and encoding/json make of it:
\*   "blank"       only white space
\*   "notjson"     not JSON
\*   "wrongshape"  JSON whose shape does not fit TranscriptEntry
\*   "toolong"     longer than bufio.Scanner's 64 KiB token limit
\*   "json"        decodes into entry
\* The timestamp string of an entry is absent/empty, not RFC3339, or RFC3339.

Usage(k) ==
    [InputTokens |-> k, OutputTokens |-> 16 * k,
     CacheReadInputTokens |-> 256 * k, CacheCreationInputTokens |-> 4096 * k]

Entry(ts, side, msg) == [Timestamp |-> ts, IsSidechain |-> side, Message |-> msg]

WithUsage(k) == Some([Usage |-> Some(Usage(k))])

NoUsage == Some([Usage |-> Nil])

\* a usage record whose input_tokens is the greatest int64
UsageMax ==
    [InputTokens |-> MaxInt64, OutputTokens |-> 0,
     CacheReadInputTokens |-> 0, CacheCreationInputTokens |-> 0]

WithUsageMax == Some([Usage |-> Some(UsageMax)])

ZeroEntry == Entry(TimestampAbsent, FALSE, Nil)

JsonLine(e) == [kind |-> "json", entry |-> e]

TA == Rfc3339(N0 - 2 * HourTicks + (HourTicks \div 3), 0)

TB == Rfc3339(N0 - HourTicks, HourTicks \div 2)

TC == Rfc3339(N0 - 1, 0)

\* the instant of TB written with another offset
TD == Rfc3339(N0 - HourTicks, 0)

\* "0001-01-01T00:00:00Z", which parses to the zero time.Time
TZ == Rfc3339(ZeroTicks, 0)

Lines ==
    { [kind |-> "blank", entry |-> ZeroEntry],
      [kind |-> "notjson", entry |-> ZeroEntry],
      [kind |-> "wrongshape", entry |-> Entry(TC, FALSE, WithUsage(9))],
      [kind |-> "toolong", entry |-> ZeroEntry],
      JsonLine(Entry(TimestampAbsent, FALSE, WithUsage(1))),
      JsonLine(Entry(TimestampInvalid, FALSE, WithUsage(2))),
      JsonLine(Entry(TA, FALSE, WithUsage(3))),
      JsonLine(Entry(TB, FALSE, WithUsage(4))),
      JsonLine(Entry(TB, FALSE, WithUsage(5))),
      JsonLine(Entry(TC, TRUE, WithUsage(6))),
      JsonLine(Entry(TA, TRUE, WithUsage(7))),
      JsonLine(Entry(TC, FALSE, Nil)),
      JsonLine(Entry(TB, FALSE, NoUsage)),
      JsonLine(Entry(TD, FALSE, Nil)),
      JsonLine(Entry(TZ, FALSE, WithUsage(8))),
      JsonLine(Entry(TZ, FALSE, WithUsage(10))),
      JsonLine(Entry(TA, TRUE, WithUsageMax)) }

Files == UNION { [1..n -> Lines] : n \in 0..MaxLines }

MainNows == {timeNow(N0), timeNow(N0 + 4 * HourTicks)}

\* json.Unmarshal([]byte(line), &entry)
jsonUnmarshal(line) ==
    [err |-> line.kind \in {"notjson", "wrongshape"}, entry |-> line.entry]

\* scanner.Scan() with the default buffer: a line over 64 KiB ends the scan
\* with bufio.ErrTooLong
scannerDelivers(line) == line.kind # "toolong"

\* a scanner that takes the last line of the file for the end of the file
scanStopsAtLastLine(f, i) == IF i >= Len(f) THEN TRUE ELSE ~scannerDelivers(f[i])

\* scanner.Scan() returns false at line i: end of file, or a line too long
scanStops(f, i) == IF i > Len(f) THEN TRUE ELSE ~scannerDelivers(f[i])

HasUsage(entry) == entry.Message # Nil /\ entry.Message[1].Usage # Nil

UsageOf(entry) == entry.Message[1].Usage[1]

----------------------------------------------------------------------------
(* parseMetrics: the token pass *)

Acc0 ==
    [inputTokens |-> 0, outputTokens |-> 0, cachedTokens |-> 0,
     mostRecentMainChainEntry |-> Nil, mostRecentTimestamp |-> ZeroTime]

\* locals that keep the values the call before left in them
entryLocalsKept(acc) == acc

\* claude.go:145-147: the counters and the most recent entry are declared in
\* the body of parseMetrics, so they hold zero values whatever was in them
entryLocals(acc) == Acc0

\* tracking that ignores the error of time.Parse (a failed parse gives the
\* zero time.Time)
trackMostRecentNoErrCheck(acc, entry) ==
    IF ~entry.IsSidechain /\ entry.Timestamp.form # "absent"
    THEN LET p == timeParse(entry.Timestamp)
             t == IF p.ok THEN p.time ELSE ZeroTime
         IN  IF IsZero(acc.mostRecentTimestamp) \/ After(t, acc.mostRecentTimestamp)
             THEN [acc EXCEPT !.mostRecentTimestamp = t,
                              !.mostRecentMainChainEntry = Some(entry)]
             ELSE acc
    ELSE acc

\* claude.go:173-182: track the most recent main chain entry
trackMostRecent(acc, entry) ==
    IF ~entry.IsSidechain /\ entry.Timestamp.form # "absent"
    THEN LET p == timeParse(entry.Timestamp)
         IN  IF p.ok /\ (IsZero(acc.mostRecentTimestamp)
                           \/ After(p.time, acc.mostRecentTimestamp))
             THEN [acc EXCEPT !.mostRecentTimestamp = p.time,
                              !.mostRecentMainChainEntry = Some(entry)]
             ELSE acc
    ELSE acc

\* claude.go:165-183: one decoded entry
processEntry(acc, entry) ==
    IF HasUsage(entry)
    THEN LET usage == UsageOf(entry)
             summed ==
                 [acc EXCEPT
                    !.inputTokens = Int64(@ + usage.InputTokens),
                    !.outputTokens = Int64(@ + usage.OutputTokens),
                    !.cachedTokens = Int64(@ + Int64(usage.CacheReadInputTokens
                                               + usage.CacheCreationInputTokens))]
         IN  trackMostRecent(summed, entry)
    ELSE acc

\* claude.go:152-183: the body of the scan loop for one delivered line
scanLine(acc, line) ==
    IF line.kind = "blank" THEN acc
    ELSE LET d == jsonUnmarshal(line)
         IN  IF d.err THEN acc ELSE processEntry(acc, d.entry)

\* claude.go:187-190
contextLengthOf(mostRecent) ==
    IF mostRecent # Nil /\ HasUsage(mostRecent[1])
    THEN LET usage == UsageOf(mostRecent[1])
         IN  Int64(Int64(usage.InputTokens + usage.CacheReadInputTokens)
                     + usage.CacheCreationInputTokens)
    ELSE 0

\* claude.go:192-200
makeTokenMetrics(acc) ==
    [InputTokens |-> acc.inputTokens,
     OutputTokens |-> acc.outputTokens,
     CachedTokens |-> acc.cachedTokens,
     TotalTokens |-> Int64(Int64(acc.inputTokens + acc.outputTokens)
                             + acc.cachedTokens),
     ContextLength |-> contextLengthOf(acc.mostRecentMainChainEntry)]

RECURSIVE scanFrom(_, _, _)
\* claude.go:150-184: the scan loop from line i on
scanFrom(f, i, acc) ==
    IF scanStops(f, i) THEN acc
    ELSE scanFrom(f, i + 1, scanLine(acc, f[i]))

\* the TokenMetrics parseMetrics returns for an opened file with lines f
tokenMetricsOfFile(f) == makeTokenMetrics(scanFrom(f, 1, Acc0))

\* parseMetrics' return for an empty path that returns the zero value
EmptyPathReturnZero ==
    [tokenMetrics |-> Some(makeTokenMetrics(Acc0)), blockMetrics |-> Nil, err |-> Nil]

\* claude.go:132-134
EmptyPathReturn == [tokenMetrics |-> Nil, blockMetrics |-> Nil, err |-> Nil]

\* parseMetrics' return for a failed open that propagates the error
OpenFailReturnErr(kind) ==
    [tokenMetrics |-> Nil, blockMetrics |-> Nil, err |-> Some(kind)]

\* claude.go:136-143
OpenFailReturn(kind) == [tokenMetrics |-> Nil, blockMetrics |-> Nil, err |-> Nil]

----------------------------------------------------------------------------
(* parseMetrics: the timestamp pass *)

\* claude.go:237-251: the body of extractTimestamps' loop for one delivered line
extractLine(ts, line) ==
    IF line.kind = "blank" THEN ts
    ELSE LET d == jsonUnmarshal(line)
         IN  IF d.err THEN ts
             ELSE IF d.entry.Timestamp.form # "absent"
                       /\ timeParse(d.entry.Timestamp).ok
                  THEN Append(ts, timeParse(d.entry.Timestamp).time)
                  ELSE ts

\* the timestamp pass started where the token pass left the file
seekNone(kind, offset) == [err |-> FALSE, offset |-> offset]

\* claude.go:215-217: file.Seek(0, 0): the line the timestamp pass starts
\* at, or an error for a file that cannot seek (a named pipe)
seekStart(kind, offset) ==
    IF kind = "pipe" THEN [err |-> TRUE, offset |-> offset]
    ELSE [err |-> FALSE, offset |-> 1]

IndexPermutations(n) == { p \in [1..n -> 1..n] : \A i, j \in 1..n : i # j => p[i] # p[j] }

\* the less function given to sort.Slice (claude.go:259-261), or its inverse
less(a, b, inverted) == IF inverted THEN After(a, b) ELSE Before(a, b)

RECURSIVE insert(_, _, _)
\* the inner loop of the insertion sort: x is swapped towards the front as
\* long as it is less than the element before it
insert(sorted, x, inverted) ==
    IF Len(sorted) = 0 THEN <<x>>
    ELSE IF less(x, sorted[Len(sorted)], inverted)
    THEN Append(insert(SubSeq(sorted, 1, Len(sorted) - 1), x, inverted),
                sorted[Len(sorted)])
    ELSE Append(sorted, x)

RECURSIVE insertionSort(_, _, _)
\* sort.Slice on the first n elements of ts.  On a slice of at most 12
\* elements sort.Slice is an insertion sort, which is what every transcript
\* within the bounds gives it; elements that are not less than one another
\* keep the order they have in the slice.
insertionSort(ts, n, inverted) ==
    IF n = 0 THEN <<>>
    ELSE insert(insertionSort(ts, n - 1, inverted), ts[n], inverted)

\* extractTimestamps returning the timestamps in file order, not sorted
sortSliceNone(ts) == ts

\* sort.Slice with the comparison inverted: descending
sortSliceAfter(ts) == insertionSort(ts, Len(ts), TRUE)

\* sort.Slice(timestamps, func(i, j) { return timestamps[i].Before(timestamps[j]) })
sortSlice(ts) == insertionSort(ts, Len(ts), FALSE)

\* the return after a failed timestamp pass, with the error propagated
ExtractFailReturnErr == [blockMetrics |-> Nil, err |-> Some("scan")]

\* claude.go:203-209: parseBlockMetricsFromFile returned an error; it is
\* logged, blockMetrics is nil and parseMetrics returns a nil error
ExtractFailReturn == [blockMetrics |-> Nil, err |-> Nil]

\* parseBlockMetricsFromFile giving a block of zero times for no timestamps
parseBlockMetricsFromFileNoCheck(sorted, n) ==
    IF Len(sorted) = 0
    THEN [cws |-> ZeroTime, floored |-> ZeroTime,
          result |-> Some([StartTime |-> ZeroTime, LastActivity |-> ZeroTime])]
    ELSE calculateBlockMetrics(sorted, n)

\* claude.go:224-228: the sorted timestamps of extractTimestamps
parseBlockMetricsFromFile(sorted, n) ==
    IF Len(sorted) = 0
    THEN [cws |-> ZeroTime, floored |-> ZeroTime, result |-> Nil]
    ELSE calculateBlockMetrics(sorted, n)

RECURSIVE extractFrom(_, _, _)
\* claude.go:236-256: extractTimestamps' loop from line i on, and its check
\* of scanner.Err()
extractFrom(f, i, ts) ==
    IF i > Len(f) THEN [err |-> FALSE, timestamps |-> ts]
    ELSE IF ~scannerDelivers(f[i]) THEN [err |-> TRUE, timestamps |-> <<>>]
    ELSE extractFrom(f, i + 1, extractLine(ts, f[i]))

\* claude.go:202-207, 213-229: the BlockMetrics parseMetrics returns for an
\* opened file with lines f at instant n
blockMetricsOfFile(f, n) ==
    LET e == extractFrom(f, 1, <<>>)
    IN  IF e.err THEN ExtractFailReturn.blockMetrics
        ELSE parseBlockMetricsFromFile(sortSlice(e.timestamps), n).result

\* claude.go:396-399: NewContextFromReader fails when parseMetrics returns an error
NewContextFromReaderFails(e) == e # Nil

----------------------------------------------------------------------------
(* parseMetrics, step by step *)

Init ==
    /\ pathKind \in {"empty", "missing", "denied", "file", "pipe"}
    /\ file \in (IF pathKind = "file" THEN Files
                 ELSE IF pathKind = "pipe" THEN {f \in Files : Len(f) <= 1}
                 ELSE {<<>>})
    /\ now \in MainNows
    /\ pc = "start"
    /\ pos = 0
    /\ opened = 0
    /\ inputTokens = 0
    /\ outputTokens = 0
    /\ cachedTokens = 0
    /\ mostRecentMainChainEntry = Nil
    /\ mostRecentTimestamp = ZeroTime
    /\ timestamps = <<>>
    /\ continuousWorkStart = ZeroTime
    /\ flooredWorkStart = ZeroTime
    /\ tokenMetrics = Nil
    /\ blockMetrics = Nil
    /\ err = Nil
    /\ NoInstall
    /\ NoRender
    /\ NoCalls
    /\ NoBuilder

Acc ==
    [inputTokens |-> inputTokens, outputTokens |-> outputTokens,
     cachedTokens |-> cachedTokens,
     mostRecentMainChainEntry |-> mostRecentMainChainEntry,
     mostRecentTimestamp |-> mostRecentTimestamp]

Return(r) ==
    /\ tokenMetrics' = r.tokenMetrics
    /\ blockMetrics' = r.blockMetrics
    /\ err' = r.err
    /\ pc' = "done"

\* claude.go:132-134: transcriptPath == ""
ReturnEmptyPath ==
    /\ pc = "start"
    /\ pathKind = "empty"
    /\ Return(EmptyPathReturn)
    /\ UNCHANGED <<installVars, renderVars, callVars, builderVars>>
    /\ UNCHANGED <<pathKind, file, now, pos, opened, inputTokens, outputTokens,
                   cachedTokens, mostRecentMainChainEntry, mostRecentTimestamp,
                   timestamps, continuousWorkStart, flooredWorkStart>>

\* claude.go:136-143: os.Open fails
OpenFails ==
    /\ pc = "start"
    /\ pathKind \in {"missing", "denied"}
    /\ opened' = opened + 1
    /\ Return(OpenFailReturn(pathKind))
    /\ UNCHANGED <<installVars, renderVars, callVars, builderVars>>
    /\ UNCHANGED <<pathKind, file, now, pos, inputTokens, outputTokens,
                   cachedTokens, mostRecentMainChainEntry, mostRecentTimestamp,
                   timestamps, continuousWorkStart, flooredWorkStart>>

\* claude.go:136-150: os.Open succeeds, the locals of the token pass are
\* declared and the scanner is at the first line
OpenSucceeds ==
    /\ pc = "start"
    /\ pathKind \in {"file", "pipe"}
    /\ opened' = opened + 1
    /\ LET a == entryLocals(Acc)
       IN  /\ inputTokens' = a.inputTokens
           /\ outputTokens' = a.outputTokens
           /\ cachedTokens' = a.cachedTokens
           /\ mostRecentMainChainEntry' = a.mostRecentMainChainEntry
           /\ mostRecentTimestamp' = a.mostRecentTimestamp
    /\ pos' = 1
    /\ pc' = "scan"
    /\ UNCHANGED <<installVars, renderVars, callVars, builderVars>>
    /\ UNCHANGED <<pathKind, file, now, timestamps, continuousWorkStart,
                   flooredWorkStart, tokenMetrics, blockMetrics, err>>

\* claude.go:151-184: one iteration of the token pass
ScanLine ==
    /\ pc = "scan"
    /\ pos <= Len(file)
    /\ scannerDelivers(file[pos])
    /\ LET a == scanLine(Acc, file[pos])
       IN  /\ inputTokens' = a.inputTokens
           /\ outputTokens' = a.outputTokens
           /\ cachedTokens' = a.cachedTokens
           /\ mostRecentMainChainEntry' = a.mostRecentMainChainEntry
           /\ mostRecentTimestamp' = a.mostRecentTimestamp
    /\ pos' = pos + 1
    /\ UNCHANGED <<installVars, renderVars, callVars, builderVars>>
    /\ UNCHANGED <<pathKind, file, now, pc, opened, timestamps,
                   continuousWorkStart, flooredWorkStart, tokenMetrics,
                   blockMetrics, err>>

\* claude.go:186-200, 215, 233-234: scanner.Scan() returns false; the token
\* metrics are built, the file is rewound and extractTimestamps starts with
\* an empty slice
ScanEnds ==
    /\ pc = "scan"
    /\ scanStops(file, pos)
    /\ ~seekStart(pathKind, pos).err
    /\ tokenMetrics' = Some(makeTokenMetrics(Acc))
    /\ pos' = seekStart(pathKind, pos).offset
    /\ timestamps' = <<>>
    /\ pc' = "extract"
    /\ UNCHANGED <<installVars, renderVars, callVars, builderVars>>
    /\ UNCHANGED <<pathKind, file, now, opened, inputTokens, outputTokens,
                   cachedTokens, mostRecentMainChainEntry, mostRecentTimestamp,
                   continuousWorkStart, flooredWorkStart, blockMetrics, err>>

\* claude.go:186-200, 215-217, 203-209: scanner.Scan() returns false and the
\* token metrics are built; file.Seek fails, parseBlockMetricsFromFile returns
\* the error, parseMetrics logs it and returns without block metrics
SeekFails ==
    /\ pc = "scan"
    /\ scanStops(file, pos)
    /\ seekStart(pathKind, pos).err
    /\ tokenMetrics' = Some(makeTokenMetrics(Acc))
    /\ blockMetrics' = ExtractFailReturn.blockMetrics
    /\ err' = ExtractFailReturn.err
    /\ pc' = "done"
    /\ UNCHANGED <<installVars, renderVars, callVars, builderVars>>
    /\ UNCHANGED <<pathKind, file, now, pos, opened, inputTokens, outputTokens,
                   cachedTokens, mostRecentMainChainEntry, mostRecentTimestamp,
                   timestamps, continuousWorkStart, flooredWorkStart>>

\* claude.go:236-252: one iteration of the timestamp pass
ExtractLine ==
    /\ pc = "extract"
    /\ pos <= Len(file)
    /\ scannerDelivers(file[pos])
    /\ timestamps' = extractLine(timestamps, file[pos])
    /\ pos' = pos + 1
    /\ UNCHANGED <<installVars, renderVars, callVars, builderVars>>
    /\ UNCHANGED <<pathKind, file, now, pc, opened, inputTokens, outputTokens,
                   cachedTokens, mostRecentMainChainEntry, mostRecentTimestamp,
                   continuousWorkStart, flooredWorkStart, tokenMetrics,
                   blockMetrics, err>>

\* claude.go:254-256, 203-209: scanner.Err() is not nil; parseMetrics logs
\* the error and returns the token metrics without block metrics
ExtractFails ==
    /\ pc = "extract"
    /\ pos <= Len(file)
    /\ ~scannerDelivers(file[pos])
    /\ timestamps' = <<>>
    /\ blockMetrics' = ExtractFailReturn.blockMetrics
    /\ err' = ExtractFailReturn.err
    /\ pc' = "done"
    /\ UNCHANGED <<installVars, renderVars, callVars, builderVars>>
    /\ UNCHANGED <<pathKind, file, now, pos, opened, inputTokens, outputTokens,
                   cachedTokens, mostRecentMainChainEntry, mostRecentTimestamp,
                   continuousWorkStart, flooredWorkStart, tokenMetrics>>

\* claude.go:258-263, 224-228, 203-209: the timestamps are sorted and given
\* to calculateBlockMetrics
ExtractEnds ==
    /\ pc = "extract"
    /\ pos > Len(file)
    /\ LET sorted == sortSlice(timestamps)
           r == parseBlockMetricsFromFile(sorted, now)
       IN  /\ timestamps' = sorted
           /\ continuousWorkStart' = r.cws
           /\ flooredWorkStart' = r.floored
           /\ blockMetrics' = r.result
    /\ err' = Nil
    /\ pc' = "done"
    /\ UNCHANGED <<installVars, renderVars, callVars, builderVars>>
    /\ UNCHANGED <<pathKind, file, now, pos, opened, inputTokens, outputTokens,
                   cachedTokens, mostRecentMainChainEntry, mostRecentTimestamp,
                   tokenMetrics>>

Next ==
    \/ ReturnEmptyPath
    \/ OpenFails
    \/ OpenSucceeds
    \/ ScanLine
    \/ ScanEnds
    \/ SeekFails
    \/ ExtractLine
    \/ ExtractFails
    \/ ExtractEnds

Spec == Init /\ [][Next]_vars

----------------------------------------------------------------------------
(* parseMetrics on a transcript that another process appends to *)

\* Most lines appended to the transcript during one call.
MaxAppends == 2

AppendLines ==
    { [kind |-> "toolong", entry |-> ZeroEntry],
      JsonLine(Entry(TA, FALSE, WithUsage(3))),
      JsonLine(Entry(TB, FALSE, WithUsage(4))),
      JsonLine(Entry(TC, FALSE, Nil)) }

\* the transcript when parseMetrics is called
AppendFiles ==
    { f \in Files : Len(f) <= 1 /\ \A i \in 1..Len(f) : f[i] \in AppendLines }

InitAppend ==
    /\ pathKind \in {"empty", "missing", "denied", "file", "pipe"}
    /\ file \in (IF pathKind \in {"file", "pipe"} THEN AppendFiles ELSE {<<>>})
    /\ now \in MainNows
    /\ pc = "start"
    /\ pos = 0
    /\ opened = 0
    /\ inputTokens = 0
    /\ outputTokens = 0
    /\ cachedTokens = 0
    /\ mostRecentMainChainEntry = Nil
    /\ mostRecentTimestamp = ZeroTime
    /\ timestamps = <<>>
    /\ continuousWorkStart = ZeroTime
    /\ flooredWorkStart = ZeroTime
    /\ tokenMetrics = Nil
    /\ blockMetrics = Nil
    /\ err = Nil
    /\ NoInstall
    /\ NoRender
    /\ NoCalls
    /\ NoBuilder

\* the process that writes the transcript appends one whole line while
\* parseMetrics has not returned; the scanners of claude.go:150 and 234 read
\* the file as it is when they reach its end
AppendLine ==
    /\ pathKind = "file"
    /\ pc \in {"start", "scan", "extract"}
    /\ appended < MaxAppends
    /\ \E line \in AppendLines : file' = Append(file, line)
    /\ appended' = appended + 1
    /\ UNCHANGED <<calls, previous>>
    /\ UNCHANGED <<installVars, renderVars, builderVars>>
    /\ UNCHANGED <<pathKind, now, pc, pos, opened, inputTokens, outputTokens,
                   cachedTokens, mostRecentMainChainEntry, mostRecentTimestamp,
                   timestamps, continuousWorkStart, flooredWorkStart,
                   tokenMetrics, blockMetrics, err>>

NextAppend ==
    \/ Next
    \/ AppendLine

SpecAppend == InitAppend /\ [][NextAppend]_vars

----------------------------------------------------------------------------
(* parseMetrics called again after it has returned *)

\* Most calls of parseMetrics made after the first one.
MaxCalls == 2

TwiceLines ==
    { [kind |-> "toolong", entry |-> ZeroEntry],
      JsonLine(Entry(TA, FALSE, WithUsage(3))),
      JsonLine(Entry(TB, FALSE, WithUsage(4))),
      JsonLine(Entry(TD, FALSE, Nil)) }

\* the transcripts of at most two of these lines
TwiceFiles == UNION { [1..n -> TwiceLines] : n \in 0..2 }

InitTwice ==
    /\ pathKind \in {"empty", "missing", "denied", "file", "pipe"}
    /\ file \in (IF pathKind = "file" THEN TwiceFiles
                 ELSE IF pathKind = "pipe" THEN {f \in TwiceFiles : Len(f) <= 1}
                 ELSE {<<>>})
    /\ now \in MainNows
    /\ pc = "start"
    /\ pos = 0
    /\ opened = 0
    /\ inputTokens = 0
    /\ outputTokens = 0
    /\ cachedTokens = 0
    /\ mostRecentMainChainEntry = Nil
    /\ mostRecentTimestamp = ZeroTime
    /\ timestamps = <<>>
    /\ continuousWorkStart = ZeroTime
    /\ flooredWorkStart = ZeroTime
    /\ tokenMetrics = Nil
    /\ blockMetrics = Nil
    /\ err = Nil
    /\ NoInstall
    /\ NoRender
    /\ NoCalls
    /\ NoBuilder

\* what the call that has returned was given and gave back; differed tells
\* whether a call before it gave back other token metrics than it did
CallRecord ==
    [pathKind |-> pathKind, file |-> file, now |-> now,
     tokenMetrics |-> tokenMetrics, blockMetrics |-> blockMetrics, err |-> err,
     differed |-> IF previous = Nil THEN FALSE
                  ELSE previous[1].differed
                         \/ previous[1].tokenMetrics # tokenMetrics]

\* claude.go:129: parseMetrics is called again, on the same transcript or on
\* another one, at the same instant or at another one.  Nothing but the
\* argument and the clock changes: every other variable holds what the call
\* before left in it until the code of this call assigns it.
CallAgain ==
    /\ pc = "done"
    /\ calls < MaxCalls
    /\ calls' = calls + 1
    /\ previous' = Some(CallRecord)
    /\ pathKind' \in {"empty", "missing", "denied", "file", "pipe"}
    /\ file' \in (IF pathKind' = "file" THEN TwiceFiles
                  ELSE IF pathKind' = "pipe" THEN {f \in TwiceFiles : Len(f) <= 1}
                  ELSE {<<>>})
    /\ now' \in MainNows
    /\ pc' = "start"
    /\ UNCHANGED <<pos, opened, inputTokens, outputTokens, cachedTokens,
                   mostRecentMainChainEntry, mostRecentTimestamp, timestamps,
                   continuousWorkStart, flooredWorkStart, tokenMetrics,
                   blockMetrics, err, appended>>
    /\ UNCHANGED <<installVars, renderVars, builderVars>>

NextTwice ==
    \/ Next
    \/ CallAgain

SpecTwice == InitTwice /\ [][NextTwice]_vars

----------------------------------------------------------------------------
(* Claims about parseMetrics, under Spec *)

Decodable(line) == line.kind = "json"

UsageBearing(line) == Decodable(line) /\ HasUsage(line.entry)

RECURSIVE SumField(_, _, _)
\* the sum of one usage field over the usage-bearing lines i..Len(f) of f
SumField(f, i, field) ==
    IF i > Len(f) THEN 0
    ELSE (IF UsageBearing(f[i]) THEN UsageOf(f[i].entry)[field] ELSE 0)
           + SumField(f, i + 1, field)

Returned == pc = "done" /\ pathKind = "file"

Tokens == tokenMetrics[1]

\* C1: for every transcript, InputTokens, OutputTokens and CachedTokens are
\* the sums of input_tokens, output_tokens and (cache_read_input_tokens +
\* cache_creation_input_tokens) over all decodable lines that carry a usage
\* record, side-chain or not, with a timestamp or not; TotalTokens is the sum
\* of the three.
C1_TokenSums ==
    Returned =>
        /\ Tokens.InputTokens = SumField(file, 1, "InputTokens")
        /\ Tokens.OutputTokens = SumField(file, 1, "OutputTokens")
        /\ Tokens.CachedTokens
             = SumField(file, 1, "CacheReadInputTokens")
                 + SumField(file, 1, "CacheCreationInputTokens")
        /\ Tokens.TotalTokens
             = Tokens.InputTokens + Tokens.OutputTokens + Tokens.CachedTokens

\* the lines that may determine the context length
Candidates(f) ==
    { i \in 1..Len(f) :
        /\ UsageBearing(f[i])
        /\ ~f[i].entry.IsSidechain
        /\ f[i].entry.Timestamp.form = "rfc3339" }

Latest(f) ==
    { i \in Candidates(f) :
        \A j \in Candidates(f) : f[j].entry.Timestamp.t <= f[i].entry.Timestamp.t }

ContextOf(entry) ==
    UsageOf(entry).InputTokens + UsageOf(entry).CacheReadInputTokens
      + UsageOf(entry).CacheCreationInputTokens

\* C2: ContextLength is input + cache-read + cache-creation tokens of the
\* entry with the greatest timestamp among the entries that are not
\* side-chain, carry usage and have a parseable timestamp; 0 when there is
\* none.  A side-chain entry never determines it.
C2_ContextLength ==
    Returned =>
        IF Candidates(file) = {}
        THEN Tokens.ContextLength = 0
        ELSE \E i \in Latest(file) : Tokens.ContextLength = ContextOf(file[i].entry)

WithoutInvalid(f) == SelectSeq(f, Decodable)

\* C3: skip-malformed: the TokenMetrics of a transcript equals the
\* TokenMetrics of the same transcript with every invalid line (blank, not
\* JSON, wrong shape, too long for the line reader) removed.
C3_SkipMalformed ==
    Returned => Tokens = tokenMetricsOfFile(WithoutInvalid(file))

\* the instants of the parseable timestamps of the decodable lines of f
ValidInstants(f) ==
    { f[i].entry.Timestamp.t :
        i \in { j \in 1..Len(f) :
                  Decodable(f[j]) /\ f[j].entry.Timestamp.form = "rfc3339" } }

MaxOf(S) == CHOOSE m \in S : \A x \in S : x <= m

MinOf(S) == CHOOSE m \in S : \A x \in S : m <= x

\* C5: BlockMetrics is absent exactly when the transcript yields no valid
\* timestamp or now minus the most recent timestamp is strictly greater than
\* 5 hours; a most recent timestamp exactly 5 hours old yields a block.
C5_AbsentExactlyWhenStale ==
    Returned =>
        (blockMetrics = Nil
           <=> \/ ValidInstants(file) = {}
               \/ now.t - MaxOf(ValidInstants(file)) > SessionTicks)

C10_OpenFailureLikeEmptyPath ==
    (pc = "done" /\ pathKind \in {"missing", "denied"}) =>
        /\ tokenMetrics = EmptyPathReturn.tokenMetrics
        /\ blockMetrics = EmptyPathReturn.blockMetrics
        /\ err = Nil

\* C10 witness: os.Open was called on a file that may not be read, and
\* parseMetrics has returned.
C10_Witness == pc = "done" /\ pathKind = "denied" /\ opened = 1

\* C11: no error escapes the metrics entry point: for every path, every
\* file-system state and every file content parseMetrics returns a nil error,
\* so NewContextFromReader never fails because of the transcript.
C11_NoErrorEscapes ==
    pc = "done" => (err = Nil /\ ~NewContextFromReaderFails(err))

\* the scanner reports an error at some line of f
MidReadFailure(f) == \E i \in 1..Len(f) : ~scannerDelivers(f[i])

\* C11 witness: the timestamp pass failed inside parseMetrics (scanner error),
\* and parseMetrics has returned token metrics without block metrics.
C11_Witness ==
    /\ pc = "done"
    /\ pathKind = "file"
    /\ MidReadFailure(file)
    /\ tokenMetrics # Nil
    /\ blockMetrics = Nil

\* C12: if reading the transcript fails part-way after a successful open (a
\* scanner error mid-read), parseMetrics returns the same empty TokenMetrics
\* (absent, or all fields 0) and absent BlockMetrics as for a missing file,
\* not the totals of the lines read before the failure.
C12_MidReadFailureLikeMissing ==
    (Returned /\ MidReadFailure(file)) =>
        /\ tokenMetrics \in {OpenFailReturn("missing").tokenMetrics,
                             Some(makeTokenMetrics(Acc0))}
        /\ blockMetrics = OpenFailReturn("missing").blockMetrics

\* C13: LastActivity is the maximum of all parseable timestamps of the
\* transcript (of any decodable line: side-chain or not, with or without
\* usage), whatever the order of the lines in the file.
C13_LastActivityIsMax ==
    (Returned /\ blockMetrics # Nil) =>
        blockMetrics[1].LastActivity.t = MaxOf(ValidInstants(file))

\* C13 witness: the greatest timestamp is on a line without usage that is not
\* the last line, and the last line carries a smaller timestamp.
C13_Witness ==
    /\ Returned
    /\ blockMetrics # Nil
    /\ Len(file) >= 2
    /\ Decodable(file[Len(file)])
    /\ file[Len(file)].entry.Timestamp.form = "rfc3339"
    /\ file[Len(file)].entry.Timestamp.t < blockMetrics[1].LastActivity.t
    /\ \E i \in 1..(Len(file) - 1) :
          /\ Decodable(file[i])
          /\ ~HasUsage(file[i].entry)
          /\ file[i].entry.Timestamp.form = "rfc3339"
          /\ file[i].entry.Timestamp.t = blockMetrics[1].LastActivity.t

\* C14: for a transcript file that opens successfully but is empty (zero
\* lines), TokenMetrics has all five fields equal to 0 and BlockMetrics is
\* absent.
C14_EmptyFile ==
    (Returned /\ Len(file) = 0) =>
        /\ tokenMetrics
             = Some([InputTokens |-> 0, OutputTokens |-> 0, CachedTokens |-> 0,
                     TotalTokens |-> 0, ContextLength |-> 0])
        /\ blockMetrics = Nil

\* C14 witness: the empty file was opened and parseMetrics has returned.
C14_Witness ==
    /\ Returned
    /\ Len(file) = 0
    /\ opened = 1
    /\ tokenMetrics # Nil

NonNegativeUsage(f) ==
    \A i \in 1..Len(f) :
        UsageBearing(f[i]) =>
            /\ UsageOf(f[i].entry).InputTokens >= 0
            /\ UsageOf(f[i].entry).OutputTokens >= 0
            /\ UsageOf(f[i].entry).CacheReadInputTokens >= 0
            /\ UsageOf(f[i].entry).CacheCreationInputTokens >= 0

\* C15: while scanning a transcript whose usage counts are all non-negative,
\* each running counter (input, output, cached) never decreases from one
\* processed line to the next, and every field of the resulting TokenMetrics
\* is >= 0.
C15_MonotonicNonNegative ==
    [][NonNegativeUsage(file) =>
          /\ inputTokens' >= inputTokens
          /\ outputTokens' >= outputTokens
          /\ cachedTokens' >= cachedTokens
          /\ tokenMetrics' # Nil =>
                /\ tokenMetrics'[1].InputTokens >= 0
                /\ tokenMetrics'[1].OutputTokens >= 0
                /\ tokenMetrics'[1].CachedTokens >= 0
                /\ tokenMetrics'[1].TotalTokens >= 0
                /\ tokenMetrics'[1].ContextLength >= 0]_vars

\* C20: tie-break: when two or more main-chain, usage-bearing entries carry
\* exactly the same timestamp and that timestamp is the greatest,
\* ContextLength is taken from the one that appears first in the file.
\* (Stated for transcripts every line of which the scanner delivers.)
C20_TieKeepsFirst ==
    (Returned /\ ~MidReadFailure(file) /\ Candidates(file) # {}) =>
        Tokens.ContextLength = ContextOf(file[MinOf(Latest(file))].entry)

\* the token pass is about to process a usage-bearing line whose timestamp
\* is absent, empty or not RFC3339
AtUnparseableUsageLine ==
    /\ pc = "scan"
    /\ (IF pos <= Len(file)
        THEN /\ UsageBearing(file[pos])
             /\ ~timeParse(file[pos].entry.Timestamp).ok
        ELSE FALSE)

\* C21: a line with a usage record but without a parseable timestamp (absent,
\* empty or not RFC3339) is added to the token sums when the token pass
\* processes it, but is never selected as the entry that determines
\* ContextLength: the step leaves the selected entry as it was, and the
\* selected entry always carries a parseable timestamp.
C21_UnparseableSummedNotSelected ==
    [][/\ (AtUnparseableUsageLine /\ pos' = pos + 1) =>
            LET usage == UsageOf(file[pos].entry)
            IN  /\ inputTokens' = Int64(inputTokens + usage.InputTokens)
                /\ outputTokens' = Int64(outputTokens + usage.OutputTokens)
                /\ cachedTokens'
                     = Int64(cachedTokens
                             + Int64(usage.CacheReadInputTokens
                                     + usage.CacheCreationInputTokens))
                /\ mostRecentMainChainEntry' = mostRecentMainChainEntry
                /\ mostRecentTimestamp' = mostRecentTimestamp
       /\ mostRecentMainChainEntry' # Nil =>
            timeParse(mostRecentMainChainEntry'[1].Timestamp).ok]_vars

\* C21 witness: the first line was a main-chain usage line with a timestamp
\* that is not RFC3339; it has been summed and no entry is selected.
C21_Witness ==
    /\ pc = "scan"
    /\ pos = 2
    /\ UsageBearing(file[1])
    /\ ~file[1].entry.IsSidechain
    /\ file[1].entry.Timestamp.form = "invalid"
    /\ inputTokens = UsageOf(file[1].entry).InputTokens
    /\ inputTokens > 0
    /\ mostRecentMainChainEntry = Nil

\* a line that gives the timestamp pass a timestamp
Timestamped(line) == Decodable(line) /\ timeParse(line.entry.Timestamp).ok

\* C22: malformed lines are inert for block metrics: for every transcript,
\* BlockMetrics equals the BlockMetrics of the same transcript with every
\* line that is blank, fails JSON decoding, or lacks a parseable timestamp
\* removed; the timestamp extractor raises no error for any line content and
\* such lines never make BlockMetrics absent.
C22_MalformedInertForBlock ==
    Returned =>
        blockMetrics = blockMetricsOfFile(SelectSeq(file, Timestamped), now)

\* the parseable timestamps of f in the order the lines are encountered
InFileOrder(f) == extractFrom(f, 1, <<>>).timestamps

\* extractTimestamps has returned a sequence of instants to its caller
Extracted == Returned /\ ~MidReadFailure(file)

\* C23 as stated: the timestamp extractor returns the successfully parsed
\* instants in the order the lines are encountered in the file; it does not
\* reorder them.
C23_FileOrder == Extracted => timestamps = InFileOrder(file)

\* C23, amended: the timestamp extractor returns the successfully parsed
\* instants of the file, each as often as it occurs, sorted ascending; the
\* sorting is done by the extractor itself.
C23_SortedByExtractor ==
    Extracted =>
        /\ Len(timestamps) = Len(InFileOrder(file))
        /\ \E p \in IndexPermutations(Len(timestamps)) :
              timestamps = [i \in 1..Len(timestamps) |-> InFileOrder(file)[p[i]]]
        /\ \A i \in 1..(Len(timestamps) - 1) :
              ~Before(timestamps[i + 1], timestamps[i])

\* C23 witness: the file holds a later timestamp before an earlier one, and
\* the extractor has returned them in another order than the file's.
C23_Witness ==
    /\ Extracted
    /\ Len(timestamps) >= 2
    /\ Before(InFileOrder(file)[2], InFileOrder(file)[1])
    /\ timestamps # InFileOrder(file)
    /\ timestamps[1] = InFileOrder(file)[2]

----------------------------------------------------------------------------
(* Claims about parseMetrics on a growing transcript, under SpecAppend *)

\* the number of lines of f before the first line the scanner cannot deliver
DeliveredCount(f) ==
    MaxOf({ k \in 0..Len(f) : \A i \in 1..k : scannerDelivers(f[i]) })

RECURSIVE SummedOver(_, _)
\* the accumulators after the first k lines of f
SummedOver(f, k) ==
    IF k = 0 THEN Acc0 ELSE scanLine(SummedOver(f, k - 1), f[k])

\* the TokenMetrics of the transcript made of the first k lines of f
TokensOfPrefix(f, k) ==
    makeTokenMetrics(SummedOver(f, DeliveredCount(SubSeq(f, 1, k))))

\* the token pass reaches the end of its read in this step
ReadCompletes == pc = "scan" /\ pc' \in {"extract", "done"}

\* C24: when another process appends whole lines to the transcript while
\* parseMetrics runs, the returned TokenMetrics equals the TokenMetrics of
\* some prefix of the final file that contains at least every line present
\* when the call started and at most every line present when the read
\* completed; lines appended later do not change it.
C24_TokensOfSomePrefix ==
    [][/\ ReadCompletes =>
            \E k \in (Len(file) - appended)..Len(file) :
                tokenMetrics' = Some(TokensOfPrefix(file, k))
       /\ pc \in {"extract", "done"} => tokenMetrics' = tokenMetrics]_vars

\* C24 witness: the call started on one line, two lines were appended, and
\* the returned TokenMetrics is that of the first two lines: neither that of
\* the file at the start nor that of the final file.
C24_Witness ==
    /\ Returned
    /\ appended = 2
    /\ Len(file) = 3
    /\ tokenMetrics = Some(TokensOfPrefix(file, 2))
    /\ tokenMetrics # Some(TokensOfPrefix(file, 1))
    /\ tokenMetrics # Some(TokensOfPrefix(file, 3))

\* the timestamp pass hands its timestamps to the block calculator in this
\* step
TimestampsGiven == pc = "extract" /\ pc' = "done" /\ pos > Len(file)

\* C28: within one parseMetrics call on an append-only transcript, every
\* line counted by the token pass is also read by the rewound timestamp pass,
\* so if ContextLength was taken from an entry with timestamp t, then t is
\* among the timestamps given to the block calculator and, when BlockMetrics
\* is present, LastActivity >= t.
C28_SecondPassSeesSuperset ==
    [][mostRecentMainChainEntry # Nil =>
          /\ TimestampsGiven =>
                \E i \in 1..Len(timestamps') :
                    timestamps'[i] = mostRecentTimestamp
          /\ blockMetrics' # Nil =>
                ~Before(blockMetrics'[1].LastActivity, mostRecentTimestamp)]_vars

\* C28 witness: a line was appended after the token pass had ended; the
\* timestamp pass read it, so LastActivity is later than the timestamp of the
\* entry ContextLength was taken from.
C28_Witness ==
    /\ Returned
    /\ appended >= 1
    /\ mostRecentMainChainEntry # Nil
    /\ blockMetrics # Nil
    /\ After(blockMetrics[1].LastActivity, mostRecentTimestamp)
    /\ \E i \in 1..Len(timestamps) : timestamps[i] = mostRecentTimestamp
    /\ Timestamped(file[Len(file)])
    /\ file[Len(file)].entry.Timestamp.t = blockMetrics[1].LastActivity.t
    /\ tokenMetrics # Some(TokensOfPrefix(file, Len(file)))

----------------------------------------------------------------------------
(* Claims about successive calls of parseMetrics, under SpecTwice *)

\* this call was made on the content and at the instant of the call before
SameCall ==
    /\ previous[1].pathKind = pathKind
    /\ previous[1].file = file
    /\ previous[1].now = now

\* the lines of f the scanners deliver: those before the first line that is
\* longer than 64 KiB
Delivered(f) == SubSeq(f, 1, DeliveredCount(f))

\* the token metrics the lines d amount to: the sums of the usage records,
\* and the context of the first of the latest main-chain usage entries
TokensOfLines(d) ==
    [InputTokens |-> SumField(d, 1, "InputTokens"),
     OutputTokens |-> SumField(d, 1, "OutputTokens"),
     CachedTokens |-> SumField(d, 1, "CacheReadInputTokens")
                        + SumField(d, 1, "CacheCreationInputTokens"),
     TotalTokens |-> SumField(d, 1, "InputTokens")
                       + SumField(d, 1, "OutputTokens")
                       + SumField(d, 1, "CacheReadInputTokens")
                       + SumField(d, 1, "CacheCreationInputTokens"),
     ContextLength |-> IF Candidates(d) = {} THEN 0
                       ELSE ContextOf(d[MinOf(Latest(d))].entry)]

\* the lines of f that carry the instant t
LinesAt(f, t) ==
    { i \in 1..Len(f) : Timestamped(f[i]) /\ f[i].entry.Timestamp.t = t }

\* a and b are instants of S with no instant of S between them
Neighbours(S, a, b) ==
    a \in S /\ b \in S /\ a < b /\ ~\E c \in S : a < c /\ c < b

\* the instants of S from which on no two neighbours are 5 hours apart
Streak(S) ==
    { s \in S :
        \A a, b \in S :
            (s <= a /\ Neighbours(S, a, b)) => Milliseconds(b - a) < sessionDurationMs }

\* no block is due for the transcript f at the instant n: the transcript
\* cannot be read to its end, holds no timestamp, or its latest timestamp is
\* more than 5 hours old
NoBlockDue(f, n) ==
    \/ MidReadFailure(f)
    \/ ValidInstants(f) = {}
    \/ Milliseconds(n.t - MaxOf(ValidInstants(f))) > sessionDurationMs

\* the timestamp the streak of f starts with: of the lines that carry the
\* earliest instant of the streak, the first
StreakStart(f) == f[MinOf(LinesAt(f, MinOf(Streak(ValidInstants(f)))))].entry.Timestamp

\* the instant the block of f starts at, evaluated at the instant n: the
\* full hour of the streak start on the clock of its own offset, moved on by
\* the whole blocks of 5 hours that have passed since
BlockStartDue(f, n) ==
    LET first == StreakStart(f)
        hour == first.t - ((first.t + first.off) % HourTicks)
        elapsed == Milliseconds(n.t - hour)
    IN  IF elapsed > sessionDurationMs
        THEN hour + (elapsed \div sessionDurationMs) * SessionTicks
        ELSE hour

\* the timestamp of the last activity of f: of the lines that carry the
\* latest instant, the last
LastActivityDue(f) ==
    timeParse(f[MaxOf(LinesAt(f, MaxOf(ValidInstants(f))))].entry.Timestamp).time

\* C25: invocations are independent: two calls of parseMetrics on the same
\* file content evaluated at the same instant now return identical
\* TokenMetrics and BlockMetrics, and the result of a call does not depend on
\* any earlier call on any other file: whatever the calls before it were given
\* and left behind, a call returns the token metrics its own transcript
\* amounts to and the block that is due for its own transcript at its own
\* instant.
C25_CallsIndependent ==
    pc = "done" =>
        /\ (IF previous = Nil THEN FALSE ELSE SameCall) =>
              /\ tokenMetrics = previous[1].tokenMetrics
              /\ blockMetrics = previous[1].blockMetrics
              /\ err = previous[1].err
        /\ err = Nil
        /\ tokenMetrics
             = (IF pathKind \in {"file", "pipe"}
                THEN Some(TokensOfLines(Delivered(file)))
                ELSE Nil)
        /\ IF pathKind # "file" THEN blockMetrics = Nil
           ELSE IF NoBlockDue(file, now) THEN blockMetrics = Nil
           ELSE /\ blockMetrics # Nil
                /\ blockMetrics[1].LastActivity = LastActivityDue(file)
                /\ blockMetrics[1].StartTime.t = BlockStartDue(file, now)

\* C25 witness: a call has returned, on the same two-line transcript and at
\* the same instant as the call before it, with token sums and a block whose
\* timestamps are the same instant written with two offsets; a call made
\* earlier had returned other token metrics, and the locals had been left
\* with its values.
C25_Witness ==
    /\ pc = "done"
    /\ calls = 2
    /\ previous # Nil
    /\ SameCall
    /\ previous[1].differed
    /\ pathKind = "file"
    /\ Len(file) = 2
    /\ Len(timestamps) = 2
    /\ timestamps[1].off # timestamps[2].off
    /\ tokenMetrics[1].InputTokens > 0
    /\ blockMetrics # Nil

----------------------------------------------------------------------------
(* Claims about the block calculator, under SpecBlock *)

BlockPresent == pc = "calculated" /\ blockMetrics # Nil

Block == blockMetrics[1]

LastTimestamp == timestamps[Len(timestamps)]

\* C4: whenever BlockMetrics is present, StartTime is less than or equal to
\* LastActivity, for every ascending timestamp sequence and every now.
C4_StartNotAfterLastActivity ==
    BlockPresent => Block.StartTime.t <= Block.LastActivity.t

\* the earliest index reachable from the last one through gaps each < 5 hours
ReachableFrom(ts) ==
    { i \in 1..Len(ts) :
        \A j \in i..(Len(ts) - 1) : ts[j + 1].t - ts[j].t < SessionTicks }

\* C6: on an ascending sequence findContinuousWorkStart returns the earliest
\* timestamp reachable from the last element through consecutive gaps each
\* strictly smaller than 5 hours; the single element of a one-element
\* sequence; the last element when the gap to its predecessor is >= 5 hours.
C6_ContinuousWorkStart ==
    (pc = "found" /\ Len(timestamps) > 0) =>
        /\ continuousWorkStart = timestamps[MinOf(ReachableFrom(timestamps))]
        /\ Len(timestamps) = 1 => continuousWorkStart = timestamps[1]
        /\ (Len(timestamps) > 1
              /\ LastTimestamp.t - timestamps[Len(timestamps) - 1].t >= SessionTicks)
             => continuousWorkStart = LastTimestamp

\* C6 witness: a three-element sequence whose first gap is exactly 5 hours and
\* whose second gap is shorter: the walk stops at the second element.
C6_Witness ==
    /\ pc = "found"
    /\ Len(timestamps) = 3
    /\ timestamps[2].t - timestamps[1].t = SessionTicks
    /\ timestamps[3].t - timestamps[2].t \in 1..(SessionTicks - 1)
    /\ continuousWorkStart = timestamps[2]

\* C7 as stated: the rollover is decided by the exact elapsed time.
C7_RolloverExact ==
    BlockPresent =>
        LET elapsed == now.t - flooredWorkStart.t
        IN  /\ IF elapsed > SessionTicks
               THEN Block.StartTime.t
                      = flooredWorkStart.t + (elapsed \div SessionTicks) * SessionTicks
               ELSE Block.StartTime.t = flooredWorkStart.t
            /\ now.t - Block.StartTime.t <= SessionTicks

\* C7 (amended): with totalWorkTime the whole milliseconds of now - flooredStart
\* (truncated), StartTime = flooredStart + floor(totalWorkTime / 5h) * 5h if
\* totalWorkTime > 18,000,000 and StartTime = flooredStart otherwise; in both
\* cases the whole milliseconds of now - StartTime are at most 18,000,000.
C7_RolloverWholeMs ==
    BlockPresent =>
        LET totalWorkTime == Milliseconds(now.t - flooredWorkStart.t)
        IN  /\ IF totalWorkTime > sessionDurationMs
               THEN Block.StartTime.t
                      = flooredWorkStart.t
                          + (totalWorkTime \div sessionDurationMs) * SessionTicks
               ELSE Block.StartTime.t = flooredWorkStart.t
            /\ Milliseconds(now.t - Block.StartTime.t) <= sessionDurationMs

\* C7 witness: a streak whose floored start is 11 hours old: two whole blocks fit.
C7_Witness ==
    /\ BlockPresent
    /\ now.t - flooredWorkStart.t >= 2 * SessionTicks
    /\ Block.StartTime.t = flooredWorkStart.t + 2 * SessionTicks

NoRollover == Milliseconds(now.t - flooredWorkStart.t) <= sessionDurationMs

\* C8: when no rollover advancement is applied, StartTime is the streak start
\* with minutes, seconds and sub-seconds zeroed in the timestamp's own UTC
\* offset, so StartTime <= streakStart < StartTime + 1 hour; LastActivity is
\* the most recent timestamp unchanged (not floored).
C8_FlooredToHour ==
    BlockPresent =>
        /\ NoRollover =>
              /\ (Block.StartTime.t + continuousWorkStart.off) % HourTicks = 0
              /\ Block.StartTime.off = continuousWorkStart.off
              /\ Block.StartTime.t <= continuousWorkStart.t
              /\ continuousWorkStart.t < Block.StartTime.t + HourTicks
        /\ Block.LastActivity = LastTimestamp

\* C29: whenever BlockMetrics is present, StartTime is not later than now,
\* for every ascending timestamp sequence, including sequences whose most
\* recent timestamp lies after now.
C29_StartNotAfterNow == BlockPresent => Block.StartTime.t <= now.t

----------------------------------------------------------------------------
(* The install command: handleInstall of src/main.go *)

\* Most handleInstall calls made one after the other.
MaxInstalls == 2

\* Precision in bits of the float64 that encoding/json decodes a number into
\* (Go: 53 bits).
Float64Bits == 4

\* no transcript is parsed
NoMetrics ==
    /\ pathKind = "empty"
    /\ file = <<>>
    /\ now = timeNow(N0)
    /\ pos = 0
    /\ opened = 0
    /\ inputTokens = 0
    /\ outputTokens = 0
    /\ cachedTokens = 0
    /\ mostRecentMainChainEntry = Nil
    /\ mostRecentTimestamp = ZeroTime
    /\ timestamps = <<>>
    /\ continuousWorkStart = ZeroTime
    /\ flooredWorkStart = ZeroTime
    /\ tokenMetrics = Nil
    /\ blockMetrics = Nil

\* A string is the sequence of its characters.
Cstatus == <<"c", "s", "t", "a", "t", "u", "s">>

\* strings.Contains(s, sub)
Contains(s, sub) ==
    \E i \in 1..(Len(s) - Len(sub) + 1) : SubSeq(s, i, i + Len(sub) - 1) = sub

\* "/bin/cstatus"
BinCstatus == <<"/", "b", "i", "n", "/">> \o Cstatus

\* "/bin/sl": the binary installed under another name
BinSl == <<"/", "b", "i", "n", "/", "s", "l">>

\* "ccstatusline": another statusline command, whose name contains "cstatus"
Ccstatusline == <<"c">> \o Cstatus \o <<"l", "i", "n", "e">>

\* "CStatus"
CapitalCStatus == <<"C", "S", "t", "a", "t", "u", "s">>

Executables == {BinCstatus, BinSl}

CommandStrings == {Cstatus, BinSl, Ccstatusline, CapitalCStatus}

RECURSIVE ulp(_)
\* the distance between neighbouring float64 values at n >= 0
ulp(n) == IF n < 2 ^ Float64Bits THEN 1 ELSE 2 * ulp(n \div 2)

\* strconv.ParseFloat(n, 64) for an integer literal n >= 0: the nearest
\* float64, ties to even
float64(n) ==
    LET u == ulp(n)
        q == n \div u
        r == n % u
    IN  IF 2 * r > u \/ (2 * r = u /\ q % 2 = 1) THEN (q + 1) * u ELSE q * u

\* an integer that no float64 holds exactly
BigNumber == 2 ^ (Float64Bits + 1) + 1

\* A JSON value of a key other than statusLine: absent, a string (n names the
\* string) or a number (n is its value).
AbsentValue == [type |-> "absent", n |-> 0]

StringValue(n) == [type |-> "string", n |-> n]

NumberValue(n) == [type |-> "number", n |-> n]

OtherKeys == {"theme", "limit"}

OtherValues == {AbsentValue, StringValue(1), NumberValue(5), NumberValue(BigNumber)}

\* the value of statusLine.command: absent, a number or a string
CmdAbsent == [kind |-> "absent", text |-> <<>>]

CmdNumber == [kind |-> "number", text |-> <<>>]

CmdString(s) == [kind |-> "string", text |-> s]

\* the value of the statusLine key: absent, not an object, or an object
SLAbsent == [kind |-> "absent", command |-> CmdAbsent, type |-> "", padding |-> 0]

SLScalar == [kind |-> "scalar", command |-> CmdAbsent, type |-> "", padding |-> 0]

SLObject(cmd, type, padding) ==
    [kind |-> "object", command |-> cmd, type |-> type, padding |-> padding]

StatusLines ==
    {SLAbsent, SLScalar, SLObject(CmdAbsent, "command", 0),
     SLObject(CmdNumber, "command", 0)}
      \cup {SLObject(CmdString(c), "command", 2) : c \in CommandStrings}

NoOthers == [k \in OtherKeys |-> AbsentValue]

\* The content of settings.json: not JSON (or JSON that is no object), the
\* JSON value null, or a JSON object.
InvalidDoc == [kind |-> "invalid", statusLine |-> SLAbsent, others |-> NoOthers]

NullDoc == [kind |-> "null", statusLine |-> SLAbsent, others |-> NoOthers]

ObjectDoc(sl, others) == [kind |-> "object", statusLine |-> sl, others |-> others]

Docs ==
    {InvalidDoc, NullDoc}
      \cup {ObjectDoc(sl, o) : sl \in StatusLines, o \in [OtherKeys -> OtherValues]}

\* main.go:71, 75, 78: a map[string]any; the nil map and the empty map
NilMap == [nilMap |-> TRUE, statusLine |-> SLAbsent, others |-> NoOthers]

EmptyMap == [nilMap |-> FALSE, statusLine |-> SLAbsent, others |-> NoOthers]

\* a JSON value decoded into any: a number becomes a float64
decodeValue(v) == IF v.type = "number" THEN NumberValue(float64(v.n)) ELSE v

decodeStatusLine(sl) == [sl EXCEPT !.padding = float64(@)]

\* json.Unmarshal(data, &settings), settings a nil map[string]any
jsonUnmarshalMap(doc) ==
    IF doc.kind = "invalid" THEN [err |-> TRUE, map |-> NilMap]
    ELSE IF doc.kind = "null" THEN [err |-> FALSE, map |-> NilMap]
    ELSE [err |-> FALSE,
          map |-> [nilMap |-> FALSE,
                   statusLine |-> decodeStatusLine(doc.statusLine),
                   others |-> [k \in OtherKeys |-> decodeValue(doc.others[k])]]]

\* main.go:70-79: read existing settings or create an empty object; readable
\* tells whether os.ReadFile returns the content of the file (it does not for
\* a missing file, nor for one that may not be read)
readSettings(f, readable) ==
    IF f # Nil /\ readable
    THEN LET d == jsonUnmarshalMap(f[1])
         IN  IF d.err THEN EmptyMap ELSE d.map
    ELSE EmptyMap

\* main.go:82-93: "already" (cstatus is configured), "foreign" (another
\* command is configured), "none" (neither return is taken)
existingStatusline(m) ==
    IF m.statusLine.kind = "object" /\ m.statusLine.command.kind = "string"
    THEN IF Contains(m.statusLine.command.text, Cstatus) THEN "already" ELSE "foreign"
    ELSE "none"

\* main.go:100-105
commandPathOf(found, exe) == IF found THEN Cstatus ELSE exe

\* main.go:108-112
newStatusLine(commandPath) == SLObject(CmdString(commandPath), "command", 0)

\* json.MarshalIndent(settings, "", "  "): every float64 is written with the
\* digits that give it back
jsonMarshalIndent(m) == ObjectDoc(m.statusLine, m.others)

InitInstall ==
    /\ NoMetrics
    /\ NoRender
    /\ NoCalls
    /\ NoBuilder
    /\ pc = "idle"
    /\ err = Nil
    /\ settingsFile \in {Nil} \cup {Some(d) : d \in Docs}
    /\ settingsBefore = Nil
    /\ settings = Nil
    /\ executable \in Executables
    /\ onPath \in BOOLEAN
    /\ installResult = "none"
    /\ installs = 0
    /\ previousResult = "none"

InstallReturns(result, e) ==
    /\ installResult' = result
    /\ err' = e
    /\ pc' = "returned"

\* main.go:55-68: handleInstall is called; the home directory is found and
\* ~/.claude exists or is created
InstallBegins ==
    /\ pc \in {"idle", "returned"}
    /\ installs < MaxInstalls
    /\ installs' = installs + 1
    /\ previousResult' = installResult
    /\ settingsBefore' = settingsFile
    /\ settings' = Nil
    /\ installResult' = "running"
    /\ err' = Nil
    /\ pc' = "read"
    /\ UNCHANGED <<settingsFile, executable, onPath>>
    /\ UNCHANGED <<metricsVars, renderVars, callVars, builderVars>>

\* main.go:58-68: os.UserHomeDir fails, or os.MkdirAll fails (it may fail
\* whether or not ~/.claude/settings.json exists)
InstallFailsEarly ==
    /\ pc \in {"idle", "returned"}
    /\ installs < MaxInstalls
    /\ installs' = installs + 1
    /\ previousResult' = installResult
    /\ settingsBefore' = settingsFile
    /\ settings' = Nil
    /\ \E cause \in {"home", "mkdir"} : InstallReturns("error", Some(cause))
    /\ UNCHANGED <<settingsFile, executable, onPath>>
    /\ UNCHANGED <<metricsVars, renderVars, callVars, builderVars>>

\* main.go:70-79
ReadSettings ==
    /\ pc = "read"
    /\ \E readable \in (IF settingsFile = Nil THEN {FALSE} ELSE BOOLEAN) :
          settings' = Some(readSettings(settingsFile, readable))
    /\ pc' = "check"
    /\ UNCHANGED <<settingsFile, settingsBefore, executable, onPath,
                   installResult, installs, previousResult, err>>
    /\ UNCHANGED <<metricsVars, renderVars, callVars, builderVars>>

\* main.go:85-88: cstatus is already installed as statusline
AlreadyInstalled ==
    /\ pc = "check"
    /\ existingStatusline(settings[1]) = "already"
    /\ InstallReturns("already", Nil)
    /\ UNCHANGED <<settingsFile, settingsBefore, settings, executable, onPath,
                   installs, previousResult>>
    /\ UNCHANGED <<metricsVars, renderVars, callVars, builderVars>>

\* main.go:90: existing statusline configuration found
ExistingStatuslineFound ==
    /\ pc = "check"
    /\ existingStatusline(settings[1]) = "foreign"
    /\ InstallReturns("error", Some("existing"))
    /\ UNCHANGED <<settingsFile, settingsBefore, settings, executable, onPath,
                   installs, previousResult>>
    /\ UNCHANGED <<metricsVars, renderVars, callVars, builderVars>>

\* main.go:95-98: os.Executable succeeds
ExecutableFound ==
    /\ pc = "check"
    /\ existingStatusline(settings[1]) = "none"
    /\ pc' = "write"
    /\ UNCHANGED <<settingsFile, settingsBefore, settings, executable, onPath,
                   installResult, installs, previousResult, err>>
    /\ UNCHANGED <<metricsVars, renderVars, callVars, builderVars>>

\* main.go:95-98: os.Executable fails
ExecutableFails ==
    /\ pc = "check"
    /\ existingStatusline(settings[1]) = "none"
    /\ InstallReturns("error", Some("executable"))
    /\ UNCHANGED <<settingsFile, settingsBefore, settings, executable, onPath,
                   installs, previousResult>>
    /\ UNCHANGED <<metricsVars, renderVars, callVars, builderVars>>

\* main.go:108: assignment to an entry of the nil map that decoding null left
InstallPanics ==
    /\ pc = "write"
    /\ settings[1].nilMap
    /\ InstallReturns("panic", Nil)
    /\ UNCHANGED <<settingsFile, settingsBefore, settings, executable, onPath,
                   installs, previousResult>>
    /\ UNCHANGED <<metricsVars, renderVars, callVars, builderVars>>

\* main.go:100-127: the statusLine entry is set and the file is written
WriteSettings ==
    /\ pc = "write"
    /\ ~settings[1].nilMap
    /\ LET m == [settings[1] EXCEPT
                   !.statusLine = newStatusLine(commandPathOf(onPath, executable))]
       IN  /\ settings' = Some(m)
           /\ settingsFile' = Some(jsonMarshalIndent(m))
    /\ InstallReturns("installed", Nil)
    /\ UNCHANGED <<settingsBefore, executable, onPath, installs, previousResult>>
    /\ UNCHANGED <<metricsVars, renderVars, callVars, builderVars>>

\* main.go:119-121: os.WriteFile fails: the file cannot be opened and is left
\* as it was, or it was truncated and the write failed part-way
WriteFails ==
    /\ pc = "write"
    /\ ~settings[1].nilMap
    /\ settings' =
         Some([settings[1] EXCEPT
                 !.statusLine = newStatusLine(commandPathOf(onPath, executable))])
    /\ \E truncated \in BOOLEAN :
          settingsFile' = IF truncated THEN Some(InvalidDoc) ELSE settingsFile
    /\ InstallReturns("error", Some("write"))
    /\ UNCHANGED <<settingsBefore, executable, onPath, installs, previousResult>>
    /\ UNCHANGED <<metricsVars, renderVars, callVars, builderVars>>

NextInstall ==
    \/ InstallBegins
    \/ InstallFailsEarly
    \/ ReadSettings
    \/ AlreadyInstalled
    \/ ExistingStatuslineFound
    \/ ExecutableFound
    \/ ExecutableFails
    \/ InstallPanics
    \/ WriteSettings
    \/ WriteFails

SpecInstall == InitInstall /\ [][NextInstall]_vars

----------------------------------------------------------------------------
(* Claims about handleInstall, under SpecInstall *)

\* settings.json held, when the install started, a statusLine object whose
\* command is a string that does not contain "cstatus"
HeldForeignStatusline ==
    /\ settingsBefore # Nil
    /\ settingsBefore[1].kind = "object"
    /\ settingsBefore[1].statusLine.kind = "object"
    /\ settingsBefore[1].statusLine.command.kind = "string"
    /\ ~Contains(settingsBefore[1].statusLine.command.text, Cstatus)

\* C16: install, run when settings.json already holds a statusLine whose
\* command string does not contain "cstatus", returns an error and leaves
\* settings.json unchanged.
C16_ForeignStatuslineRefused ==
    (pc = "returned" /\ HeldForeignStatusline) =>
        /\ err # Nil
        /\ installResult = "error"
        /\ settingsFile = settingsBefore

\* the keys other than statusLine, with their values, of a settings.json
OthersOf(f) ==
    IF f # Nil /\ f[1].kind = "object" THEN f[1].others ELSE NoOthers

\* C17: a successful install changes only the statusLine key of
\* ~/.claude/settings.json: every other key and value present in the file
\* before the install is present and unchanged afterwards.
C17_OnlyStatusLineChanges ==
    (pc = "returned" /\ installResult \in {"installed", "already"}) =>
        OthersOf(settingsFile) = OthersOf(settingsBefore)

\* C27: install is idempotent: after one successful install, running
\* install again (as far as the check of the statusLine entry) succeeds,
\* reports that cstatus is already installed and leaves settings.json
\* byte-for-byte unchanged, whatever path the executable was installed under.
C27_InstallIdempotent ==
    (/\ pc = "returned"
     /\ previousResult = "installed"
     /\ err \notin {Some("home"), Some("mkdir")}) =>
        /\ installResult = "already"
        /\ err = Nil
        /\ settingsFile = settingsBefore

----------------------------------------------------------------------------
(* The render context and the widgets: render.NewRenderContext,            *)
(* render.ParseTokenMetrics, widgets.ProjectWidget and widgets.GitWidget   *)

\* ui: icons and colours
Branch == "U+2387"

GitChangesIcon == "U+25CF"

ProjectIcon == "U+1F4C1"

ColorProjectBg == "#8b4513"

ColorProjectFg == "#ffffff"

ColorGitBg == "#404040"

ColorGitFg == "#ffffff"

ColorGitChangesBg == "#ff6b6b"

ColorGitChangesFg == "#ffffff"

\* ui.CreateSegment
CreateSegment(text, bgColor, fgColor) ==
    Some([Text |-> text, BgHex |-> bgColor, FgHex |-> fgColor])

\* fmt.Sprintf(" %s %s ", a, b): the text as the sequence of its pieces
Sprintf2(a, b) == <<" ", a, " ", b, " ">>

\* fmt.Sprintf(" %s %s %s ", a, b, c)
Sprintf3(a, b, c) == <<" ", a, " ", b, " ", c, " ">>

\* ProjectWidget.Render
ProjectWidgetRender(c) ==
    IF c.ProjectName = "" THEN Nil
    ELSE CreateSegment(Sprintf2(ProjectIcon, c.ProjectName),
                       ColorProjectBg, ColorProjectFg)

\* GitWidget.Render that never looks at GitHasChanges
GitWidgetRenderPlain(c) ==
    IF c.GitBranch = "" THEN Nil
    ELSE CreateSegment(Sprintf2(Branch, c.GitBranch), ColorGitBg, ColorGitFg)

\* GitWidget.Render
GitWidgetRender(c) ==
    IF c.GitBranch = "" THEN Nil
    ELSE IF c.GitHasChanges
         THEN CreateSegment(Sprintf3(Branch, c.GitBranch, GitChangesIcon),
                            ColorGitChangesBg, ColorGitChangesFg)
         ELSE CreateSegment(Sprintf2(Branch, c.GitBranch), ColorGitBg, ColorGitFg)

\* A directory string: the empty string, or "/" followed by the names in
\* parts joined by "/" ("/" alone when parts is empty).
EmptyDir == [set |-> FALSE, parts |-> <<>>]

Dir(parts) == [set |-> TRUE, parts |-> parts]

Dirs == {EmptyDir, Dir(<<>>), Dir(<<"test", "project">>)}

\* filepath.Base(dir) of a directory string that is not empty
filepathBase(d) == IF d.parts = <<>> THEN "/" ELSE d.parts[Len(d.parts)]

\* the decoded ClaudeCodeInput; TranscriptPath is what pathKind and file say
ClaudeCodeInput(projectDir, currentDir, cwd) ==
    [valid |-> TRUE, ProjectDir |-> projectDir, CurrentDir |-> currentDir,
     Cwd |-> cwd]

\* a claudeJSON that json.Unmarshal rejects
InvalidInput ==
    [valid |-> FALSE, ProjectDir |-> EmptyDir, CurrentDir |-> EmptyDir,
     Cwd |-> EmptyDir]

Inputs ==
    {InvalidInput}
      \cup {ClaudeCodeInput(p, c, w) : p \in Dirs, c \in Dirs, w \in Dirs}

\* the transcripts given to NewRenderContext: at most one line
RenderFiles == {f \in Files : Len(f) <= 1}

\* what `git branch --show-current` gives, trimmed ("" also when git fails)
GitBranches == {"", "main", "feature"}

\* RenderContext.getWorkingDir
getWorkingDir(claude) ==
    IF claude.CurrentDir.set THEN claude.CurrentDir ELSE claude.Cwd

\* RenderContext.getProjectName
getProjectName(claude) ==
    IF claude.ProjectDir.set THEN filepathBase(claude.ProjectDir)
    ELSE IF claude.CurrentDir.set THEN filepathBase(claude.CurrentDir)
    ELSE IF claude.Cwd.set THEN filepathBase(claude.Cwd)
    ELSE ""

\* &TokenMetrics{}
ZeroTokenMetrics == Some(makeTokenMetrics(Acc0))

\* ParseTokenMetrics returning nil when the file cannot be opened
ParseTokenMetricsNil(kind, f) ==
    IF kind = "empty" THEN ZeroTokenMetrics
    ELSE IF kind \in {"missing", "denied"} THEN Nil
    ELSE Some(tokenMetricsOfFile(f))

\* render.ParseTokenMetrics(transcriptPath): jsonl.go:48-108
ParseTokenMetrics(kind, f) ==
    IF kind = "empty" THEN ZeroTokenMetrics
    ELSE IF kind \in {"missing", "denied"} THEN ZeroTokenMetrics
    ELSE Some(tokenMetricsOfFile(f))

InitRender ==
    /\ pathKind \in {"empty", "missing", "denied", "file"}
    /\ file \in (IF pathKind = "file" THEN RenderFiles ELSE {<<>>})
    /\ now = timeNow(N0)
    /\ pc = "start"
    /\ pos = 0
    /\ opened = 0
    /\ inputTokens = 0
    /\ outputTokens = 0
    /\ cachedTokens = 0
    /\ mostRecentMainChainEntry = Nil
    /\ mostRecentTimestamp = ZeroTime
    /\ timestamps = <<>>
    /\ continuousWorkStart = ZeroTime
    /\ flooredWorkStart = ZeroTime
    /\ tokenMetrics = Nil
    /\ blockMetrics = Nil
    /\ err = Nil
    /\ NoInstall
    /\ NoCalls
    /\ NoBuilder
    /\ claudeJSON \in {Some(i) : i \in Inputs}
    /\ ctx = Nil
    /\ segment = Nil

\* part_002:58-61: json.Unmarshal fails
NewRenderContextFails ==
    /\ pc = "start"
    /\ ~claudeJSON[1].valid
    /\ ctx' = Nil
    /\ err' = Some("json")
    /\ pc' = "failed"
    /\ UNCHANGED <<claudeJSON, segment>>
    /\ UNCHANGED <<metricsVars, installVars, callVars, builderVars>>

\* part_002:57-85: NewRenderContext; the two git commands give gitBranch and
\* gitHasChanges
NewRenderContext ==
    /\ pc = "start"
    /\ claudeJSON[1].valid
    /\ \E gitBranch \in GitBranches, gitHasChanges \in BOOLEAN :
          ctx' = Some([Claude |-> claudeJSON[1],
                       WorkingDir |-> getWorkingDir(claudeJSON[1]),
                       ProjectName |-> getProjectName(claudeJSON[1]),
                       GitBranch |-> gitBranch,
                       GitHasChanges |-> gitHasChanges,
                       TokenMetrics |->
                           IF pathKind # "empty"
                           THEN ParseTokenMetrics(pathKind, file)
                           ELSE ZeroTokenMetrics])
    /\ err' = Nil
    /\ pc' = "context"
    /\ UNCHANGED <<claudeJSON, segment>>
    /\ UNCHANGED <<metricsVars, installVars, callVars, builderVars>>

\* ProjectWidget.Render(ctx)
ProjectWidgetRenders ==
    /\ pc \in {"context", "project", "git"}
    /\ segment' = ProjectWidgetRender(ctx[1])
    /\ pc' = "project"
    /\ UNCHANGED <<claudeJSON, ctx, err>>
    /\ UNCHANGED <<metricsVars, installVars, callVars, builderVars>>

\* GitWidget.Render(ctx)
GitWidgetRenders ==
    /\ pc \in {"context", "project", "git"}
    /\ segment' = GitWidgetRender(ctx[1])
    /\ pc' = "git"
    /\ UNCHANGED <<claudeJSON, ctx, err>>
    /\ UNCHANGED <<metricsVars, installVars, callVars, builderVars>>

NextRender ==
    \/ NewRenderContextFails
    \/ NewRenderContext
    \/ ProjectWidgetRenders
    \/ GitWidgetRenders

SpecRender == InitRender /\ [][NextRender]_vars

----------------------------------------------------------------------------
(* Claims about the widgets and the render context, under SpecRender *)

\* the marker of uncommitted changes is part of the text
HasMarker(text) == \E i \in 1..Len(text) : text[i] = GitChangesIcon

\* C18: a widget renders no segment (nil) exactly when its datum is empty:
\* the project widget returns nil if and only if ProjectName is empty, and
\* the git widget returns nil if and only if GitBranch is empty; a non-empty
\* git branch with uncommitted changes renders with the changes colours and
\* marker, without changes with the plain git colours.
C18_WidgetNilIffEmpty ==
    /\ pc = "project" => (segment = Nil <=> ctx[1].ProjectName = "")
    /\ pc = "git" =>
          /\ segment = Nil <=> ctx[1].GitBranch = ""
          /\ (ctx[1].GitBranch # "" /\ ctx[1].GitHasChanges) =>
                /\ segment[1].BgHex = ColorGitChangesBg
                /\ segment[1].FgHex = ColorGitChangesFg
                /\ segment[1].Text
                     = <<" ", Branch, " ", ctx[1].GitBranch, " ", GitChangesIcon, " ">>
          /\ (ctx[1].GitBranch # "" /\ ~ctx[1].GitHasChanges) =>
                /\ segment[1].BgHex = ColorGitBg
                /\ segment[1].FgHex = ColorGitFg
                /\ ~HasMarker(segment[1].Text)
                /\ segment[1].Text = <<" ", Branch, " ", ctx[1].GitBranch, " ">>

\* C18 witness: the git widget has rendered a branch with uncommitted changes,
\* in a context whose project name is empty.
C18_Witness ==
    /\ pc = "git"
    /\ ctx[1].GitBranch = "feature"
    /\ ctx[1].GitHasChanges
    /\ ctx[1].ProjectName = ""
    /\ segment # Nil
    /\ HasMarker(segment[1].Text)

\* C19: every successful NewRenderContext returns a context whose
\* TokenMetrics is non-nil, whatever the transcript path is (empty, missing
\* file, unreadable file or valid file).
C19_TokenMetricsNonNil ==
    (pc = "context") => (ctx # Nil /\ ctx[1].TokenMetrics # Nil)

\* C19 witness: the context was built for a transcript that cannot be opened.
C19_Witness ==
    /\ pc = "context"
    /\ pathKind = "denied"
    /\ ctx # Nil
    /\ ctx[1].TokenMetrics = ZeroTokenMetrics

----------------------------------------------------------------------------
(* The statusline builder: src/util/util.go *)

\* Most Append calls on one builder.
MaxAppendCalls == 3

\* A rendered string is the sequence of its pieces: colour escape sequences,
\* the "icon text " body of a segment, the separator glyph, the colour reset.
Piece(kind, code, r, g, b, icon, text) ==
    [kind |-> kind, code |-> code, r |-> r, g |-> g, b |-> b,
     icon |-> icon, text |-> text]

\* fmt.Sprintf("\x1b[%s;2;%d;%d;%dm", escapeCode, r, g, b)
SgrPiece(code, r, g, b) == Piece("sgr", code, r, g, b, "", "")

\* util.go:54: asciiSeparatorRight
asciiSeparatorRight == Piece("separator", 0, 0, 0, 0, "", "")

\* util.go:56: asciiColorReset
asciiColorReset == Piece("reset", 0, 0, 0, 0, "", "")

\* the "%s %s " part of Segment.String
BodyPiece(icon, text) == Piece("body", 0, 0, 0, 0, icon, text)

\* the hexadecimal digits: 0 to 9, a to f, and A to F with the values of
\* a to f
HexDigits ==
    <<"0", "1", "2", "3", "4", "5", "6", "7", "8", "9",
      "a", "b", "c", "d", "e", "f", "A", "B", "C", "D", "E", "F">>

IsHexDigit(c) == \E i \in 1..Len(HexDigits) : HexDigits[i] = c

HexValue(c) ==
    LET i == CHOOSE j \in 1..Len(HexDigits) : HexDigits[j] = c
    IN  IF i <= 16 THEN i - 1 ELSE i - 7

\* strconv.ParseInt(pair, 16, 0) of a two-character string, with the error
\* dropped: two digits, or a sign and a digit; 0 when pair is neither
ParseIntHex(pair) ==
    IF IsHexDigit(pair[1]) /\ IsHexDigit(pair[2])
    THEN 16 * HexValue(pair[1]) + HexValue(pair[2])
    ELSE IF pair[1] = "+" /\ IsHexDigit(pair[2]) THEN HexValue(pair[2])
    ELSE IF pair[1] = "-" /\ IsHexDigit(pair[2]) THEN -HexValue(pair[2])
    ELSE 0

\* strings.TrimPrefix(hex, "#")
TrimPrefixHash(hex) ==
    IF Len(hex) > 0 /\ Head(hex) = "#" THEN Tail(hex) ELSE hex

\* util.go:99-116
hexToAnsi(hex, background) ==
    LET h == TrimPrefixHash(hex)
    IN  IF Len(h) # 6 THEN <<>>
        ELSE << SgrPiece(IF background THEN 48 ELSE 38,
                         ParseIntHex(SubSeq(h, 1, 2)),
                         ParseIntHex(SubSeq(h, 3, 4)),
                         ParseIntHex(SubSeq(h, 5, 6))) >>

White == <<"#", "f", "f", "f", "f", "f", "f">>

SaddleBrown == <<"#", "8", "b", "4", "5", "1", "3">>

\* a colour written without "#"
DarkGrey == <<"2", "0", "2", "0", "2", "0">>

\* "#fff": not six digits
ShortWhite == <<"#", "f", "f", "f">>

\* util.go:70-77
NewSegment(icon, text, fgColor, bgColor) ==
    [icon |-> icon, text |-> text, bgHex |-> bgColor, fgHex |-> fgColor]

\* what a render function given to Append may return: nil, a segment with a
\* text, a segment with an icon only, a segment with neither
WidgetResults ==
    { Nil,
      Some(NewSegment("", "cstatus", White, SaddleBrown)),
      Some(NewSegment("git", "", ShortWhite, White)),
      Some(NewSegment("", "", White, DarkGrey)) }

\* an emptiness test that looks at the text only
IsEmptyTextOnly(s) == IF s = Nil THEN TRUE ELSE s[1].text = ""

\* util.go:66-68
IsEmpty(s) == IF s = Nil THEN TRUE ELSE (s[1].text = "" /\ s[1].icon = "")

\* util.go:83-85
BgColor(s) == hexToAnsi(s.bgHex, TRUE)

\* util.go:87-89
FgColor(s) == hexToAnsi(s.fgHex, FALSE)

\* util.go:79-81: Segment.String
String(s) ==
    BgColor(s) \o FgColor(s) \o <<BodyPiece(s.icon, s.text), asciiColorReset>>

\* util.go:91-97
Sep(s, next) ==
    (IF next # Nil THEN BgColor(next[1]) ELSE <<>>)
      \o hexToAnsi(s.bgHex, FALSE) \o <<asciiSeparatorRight, asciiColorReset>>

RECURSIVE renderFrom(_, _)
\* util.go:36-48: the loop of Render from index i on
renderFrom(segs, i) ==
    IF i > Len(segs) THEN <<>>
    ELSE IF IsEmpty(Some(segs[i])) THEN renderFrom(segs, i + 1)
    ELSE String(segs[i])
           \o Sep(segs[i], IF i < Len(segs) THEN Some(segs[i + 1]) ELSE Nil)
           \o renderFrom(segs, i + 1)

\* util.go:30-51
Render(segs) == IF Len(segs) = 0 THEN <<>> ELSE renderFrom(segs, 1)

\* util.go:16-21: NewStatusLineBuilder
InitBuilder ==
    /\ NoMetrics
    /\ NoInstall
    /\ NoRender
    /\ NoCalls
    /\ pc = "build"
    /\ err = Nil
    /\ segments = <<>>
    /\ widgetResults = <<>>
    /\ rendered = Nil

\* util.go:23-28: Append calls the render function and keeps its segment
\* unless it is nil
AppendWidget ==
    /\ pc = "build"
    /\ Len(widgetResults) < MaxAppendCalls
    /\ \E result \in WidgetResults :
          /\ widgetResults' = Append(widgetResults, result)
          /\ segments' = IF result # Nil THEN Append(segments, result[1])
                         ELSE segments
    /\ UNCHANGED <<rendered, pc, err>>
    /\ UNCHANGED <<metricsVars, installVars, renderVars, callVars>>

\* util.go:30-51: Render is called
RenderStatusline ==
    /\ pc = "build"
    /\ rendered' = Some(Render(segments))
    /\ pc' = "rendered"
    /\ UNCHANGED <<segments, widgetResults, err>>
    /\ UNCHANGED <<metricsVars, installVars, renderVars, callVars>>

NextBuilder ==
    \/ AppendWidget
    \/ RenderStatusline

SpecBuilder == InitBuilder /\ [][NextBuilder]_vars

----------------------------------------------------------------------------
(* Claims about the statusline builder, under SpecBuilder *)

\* the icon and the text of a segment
Shown(s) == [icon |-> s.icon, text |-> s.text]

IsBody(piece) == piece.kind = "body"

\* the icons and texts that appear in a rendered line, in order
BodiesOf(line) ==
    LET bodies == SelectSeq(line, IsBody)
    IN  [i \in 1..Len(bodies) |-> [icon |-> bodies[i].icon, text |-> bodies[i].text]]

NotNil(result) == result # Nil

\* the widget returned a segment that has an icon or a text
Visible(result) ==
    IF result = Nil THEN FALSE ELSE (result[1].icon # "" \/ result[1].text # "")

\* the icons and texts of the results in rs
ShownOf(rs) == [i \in 1..Len(rs) |-> Shown(rs[i][1])]

\* C26 as stated: after any sequence of Append calls, the rendered line
\* contains exactly the segments of the widgets that returned non-nil, in the
\* order of the Append calls; a widget that returns nil contributes nothing,
\* and Render returns the empty string when no widget produced a segment.
C26_AllNonNilRendered ==
    pc = "rendered" =>
        /\ BodiesOf(rendered[1]) = ShownOf(SelectSeq(widgetResults, NotNil))
        /\ SelectSeq(widgetResults, NotNil) = <<>> => rendered[1] = <<>>

\* C26, amended: after any sequence of Append calls, the rendered line
\* contains exactly the segments that are not nil and have an icon or a
\* text, in the order of the Append calls; a widget that returns nil or a
\* segment with neither icon nor text contributes no segment, and Render
\* returns the empty string when there is no segment to show.
C26_NonEmptyRendered ==
    pc = "rendered" =>
        /\ BodiesOf(rendered[1]) = ShownOf(SelectSeq(widgetResults, Visible))
        /\ SelectSeq(widgetResults, Visible) = <<>> => rendered[1] = <<>>

\* C26 witness: the widgets returned nil, a segment with neither icon nor
\* text, and a segment with an icon only; the line shows one segment.
C26_Witness ==
    /\ pc = "rendered"
    /\ \E i \in 1..Len(widgetResults) : widgetResults[i] = Nil
    /\ \E i \in 1..Len(widgetResults) :
          widgetResults[i] # Nil /\ ~Visible(widgetResults[i])
    /\ \E i \in 1..Len(widgetResults) :
          Visible(widgetResults[i]) /\ widgetResults[i][1].text = ""
    /\ Len(BodiesOf(rendered[1])) = 1

NotEmpty(s) == ~IsEmpty(Some(s))

\* C30: in StatuslineBuilder.Render, the separator written after a rendered
\* segment takes its background colour from the next segment that is
\* actually rendered, and the last rendered segment's separator has no
\* background colour, for every list of appended segments, including lists
\* that contain empty segments (no icon and no text): the line is the one
\* rendered from the segments that are not empty.
C30_SeparatorFromNextRendered ==
    pc = "rendered" =>
        rendered[1] = Render(SelectSeq(segments, NotEmpty))

====
